---------------------------- MODULE Spec2Model ----------------------------
(***************************************************************************)
(* A model of the inquerest query-string grammar (src/src/lib.rs, the      *)
(* peg! block) as a packrat-free PEG recogniser over character strings.    *)
(*                                                                         *)
(* Every grammar rule r of the peg! block is an operator parse_r(s, i)     *)
(* that matches rule r in string s from position i (1-based) and returns   *)
(*    [st |-> "ok", pos |-> next position, val |-> the rule's value],      *)
(*    [st |-> "fail"]    when the rule does not match at i, or             *)
(*    [st |-> "panic"]   when an action block of the rule aborts.          *)
(* Ordered choice tries the alternatives in source order and commits to    *)
(* the first that matches; e? , e+ , e ** sep and e ++ sep are greedy and  *)
(* never give characters back.  A #[pub] rule r is also an operator r(s):  *)
(* the generated entry point, which returns Ok only when parse_r matched   *)
(* up to the end of s.                                                     *)
(*                                                                         *)
(* Rust values are modelled as records with the field names of the Rust    *)
(* types; an enum value carries a tag field and a payload field whose      *)
(* name depends on the variant.  Option<T> is a sequence of length <= 1    *)
(* and Vec<T> is a sequence.  An i64 is written as its canonical decimal   *)
(* numeral (a string without leading zeros) because the values of          *)
(* interest lie around 2^63.                                               *)
(***************************************************************************)
EXTENDS Integers, Sequences, FiniteSets, TLC

VARIABLES
    toks,      \* the pieces the caller concatenated to build the input
    input,     \* the input string handed to the parser
    rule,      \* the entry point that was called ("" before the call)
    matched,   \* what the rule matched from position 1 (before the end check)
    result     \* what the entry point returned

vars == <<toks, input, rule, matched, result>>

-----------------------------------------------------------------------------
(* Match results and PEG combinators                                       *)

Ok(p, v) == [st |-> "ok", pos |-> p, val |-> v]
Failed == [st |-> "fail"]
Panicked == [st |-> "panic"]

None == <<>>
Some(v) == <<v>>

\* A string literal "w" of the grammar.
Lit(s, i, w) ==
    IF i + Len(w) - 1 <= Len(s) /\ SubSeq(s, i, i + Len(w) - 1) = w
    THEN Ok(i + Len(w), w)
    ELSE Failed

\* e1 e2 { .. } : a is the match of e1 and K(a) the match of what follows it;
\* a failure or a panic of e1 is the result.
Bind(a, K(_)) == IF a.st # "ok" THEN a ELSE K(a)

\* e? : r is the match of e at i.
Opt(r, i) == IF r.st = "fail" THEN Ok(i, None)
             ELSE IF r.st = "ok" THEN Ok(r.pos, Some(r.val))
             ELSE r

\* !e : r is the match of e at i; nothing is consumed.
Not(r, i) == IF r.st = "fail" THEN Ok(i, None)
             ELSE IF r.st = "ok" THEN Failed
             ELSE r

\* e1 / e2 : a is the match of e1, b the match of e2 at the same position.
Or(a, b) == IF a.st = "fail" THEN b ELSE a

\* e { v } : the match r of e with the value v.
As(r, v) == IF r.st = "ok" THEN Ok(r.pos, v) ELSE r

Lower == {"a","b","c","d","e","f","g","h","i","j","k","l","m",
          "n","o","p","q","r","s","t","u","v","w","x","y","z"}
Upper == {"A","B","C","D","E","F","G","H","I","J","K","L","M",
          "N","O","P","Q","R","S","T","U","V","W","X","Y","Z"}
Digit == {"0","1","2","3","4","5","6","7","8","9"}

\* [a-zA-Z0-9_]
NameChar == Lower \cup Upper \cup Digit \cup {"_"}

\* The end of the longest run of characters of class cls that starts at i
\* (i itself when the character at i is not in cls).
RECURSIVE RunEnd(_, _, _)
RunEnd(s, i, cls) ==
    IF i <= Len(s) /\ SubSeq(s, i, i) \in cls
    THEN RunEnd(s, i + 1, cls)
    ELSE i

\* [cls]+ { match_str } : e is the end of the run that starts at i.
Run1(s, i, e) == IF e > i THEN Ok(e, SubSeq(s, i, e - 1)) ELSE Failed

-----------------------------------------------------------------------------
(* str::parse::<i64> on a non-empty run of decimal digits                  *)

I64Max == "9223372036854775807"

DigitVal(c) ==
    CASE c = "0" -> 0 [] c = "1" -> 1 [] c = "2" -> 2 [] c = "3" -> 3
      [] c = "4" -> 4 [] c = "5" -> 5 [] c = "6" -> 6 [] c = "7" -> 7
      [] c = "8" -> 8 [] c = "9" -> 9

\* d without its leading zeros ("0" when d is all zeros).
RECURSIVE Canonical(_)
Canonical(d) ==
    IF Len(d) > 1 /\ Head(d) = "0" THEN Canonical(Tail(d)) ELSE d

\* a > b for two numerals of the same length.
RECURSIVE NumeralGreater(_, _)
NumeralGreater(a, b) ==
    IF Len(a) = 0 THEN FALSE
    ELSE IF DigitVal(Head(a)) # DigitVal(Head(b))
         THEN DigitVal(Head(a)) > DigitVal(Head(b))
         ELSE NumeralGreater(Tail(a), Tail(b))

\* The digits denote a value above i64::MAX: parse returns Err.
Overflows(d) ==
    LET c == Canonical(d)
    IN  \/ Len(c) > Len(I64Max)
        \/ Len(c) = Len(I64Max) /\ NumeralGreater(c, I64Max)

\* match_str.parse().unwrap(): the value, or a panic on Err.
ParseUnwrap(p, d) ==
    IF Overflows(d) THEN Panicked ELSE Ok(p, Canonical(d))

-----------------------------------------------------------------------------
(* Values of the Rust types                                                *)

Column(c) == [tag |-> "Column", column |-> c]
FunctionOp(f) == [tag |-> "Function", function |-> f]
Number(n) == [tag |-> "Number", number |-> n]
Boolean(b) == [tag |-> "Boolean", boolean |-> b]

-----------------------------------------------------------------------------
(* The grammar rules                                                       *)

\* name = [a-zA-Z0-9_]+ { match_str.to_string() }
parse_name(s, i) == Run1(s, i, RunEnd(s, i, NameChar))

\* number = [0-9]+ { match_str.parse().unwrap() }
parse_number(s, i) ==
    Bind(Run1(s, i, RunEnd(s, i, Digit)), LAMBDA m : ParseUnwrap(m.pos, m.val))

\* boolean = "true" { true } / "false" { false }
parse_boolean(s, i) ==
    Or(As(Lit(s, i, "true"), TRUE), As(Lit(s, i, "false"), FALSE))

\* direction = "asc" { ASC } / "desc" { DESC }
parse_direction(s, i) ==
    Or(As(Lit(s, i, "asc"), "ASC"), As(Lit(s, i, "desc"), "DESC"))

\* column_name = t:name "." d:!direction c:name { format!("{}.{}", t, c) }
\*             / c:name { format!("{}", c) }
parse_column_name(s, i) ==
    Or(Bind(parse_name(s, i), LAMBDA t :
       Bind(Lit(s, t.pos, "."), LAMBDA dot :
       Bind(Not(parse_direction(s, dot.pos), dot.pos), LAMBDA d :
       Bind(parse_name(s, d.pos), LAMBDA c :
            Ok(c.pos, t.val \o "." \o c.val))))),
       parse_name(s, i))

RECURSIVE parse_operand(_, _)

\* function = f:name "(" p:operand ")" { Function{function: f, params: vec![p]} }
parse_function(s, i) ==
    Bind(parse_name(s, i), LAMBDA f :
    Bind(Lit(s, f.pos, "("), LAMBDA op :
    Bind(parse_operand(s, op.pos), LAMBDA p :
    Bind(Lit(s, p.pos, ")"), LAMBDA cl :
         Ok(cl.pos, [function |-> f.val, params |-> <<p.val>>])))))

\* operand = f:function { Operand::Function(f) }
\*         / b:boolean { Operand::Boolean(b) }
\*         / n:number { Operand::Number(n) }
\*         / c:column_name { Operand::Column(c) }
parse_operand(s, i) ==
    Or(Bind(parse_function(s, i), LAMBDA f : Ok(f.pos, FunctionOp(f.val))),
    Or(Bind(parse_boolean(s, i), LAMBDA b : Ok(b.pos, Boolean(b.val))),
    Or(Bind(parse_number(s, i), LAMBDA n : Ok(n.pos, Number(n.val))),
       Bind(parse_column_name(s, i), LAMBDA c : Ok(c.pos, Column(c.val))))))

\* equation = l:operand "=" r:operand { Equation{left: l, right: r} }
parse_equation(s, i) ==
    Bind(parse_operand(s, i), LAMBDA l :
    Bind(Lit(s, l.pos, "="), LAMBDA e :
    Bind(parse_operand(s, e.pos), LAMBDA r :
         Ok(r.pos, [left |-> l.val, right |-> r.val]))))

\* The keyword w alone: the suffix x is never tried.
KeywordOpt_Short(s, i, w, x, short, long) ==
    Bind(Lit(s, i, w), LAMBDA k : Ok(k.pos, short))

\* "lt" e:"e"? { match e { None => Equality::LT, Some(e) => Equality::LTE } }
\* and the like: the keyword w, then the optional suffix x.
KeywordOpt(s, i, w, x, short, long) ==
    Bind(Lit(s, i, w), LAMBDA k :
    Bind(Opt(Lit(s, k.pos, x), k.pos), LAMBDA e :
         Ok(e.pos, IF Len(e.val) = 0 THEN short ELSE long)))

\* equality = "eq" / "neq" / "lt" e:"e"? / "gt" e:"e"? / "in" / "not_in"
\*          / "is" _not:"_not"? / "like" / "ilike"
parse_equality(s, i) ==
    Or(As(Lit(s, i, "eq"), "EQ"),
    Or(As(Lit(s, i, "neq"), "NEQ"),
    Or(KeywordOpt(s, i, "lt", "e", "LT", "LTE"),
    Or(KeywordOpt(s, i, "gt", "e", "GT", "GTE"),
    Or(As(Lit(s, i, "in"), "IN"),
    Or(As(Lit(s, i, "not_in"), "NOT_IN"),
    Or(KeywordOpt(s, i, "is", "_not", "IS", "IS_NOT"),
    Or(As(Lit(s, i, "like"), "LIKE"),
       As(Lit(s, i, "ilike"), "ILIKE")))))))))

\* condition = l:operand "=" eq:equality "." r:operand
\*             { Condition{left: l, equality: eq, right: r} }
parse_condition(s, i) ==
    Bind(parse_operand(s, i), LAMBDA l :
    Bind(Lit(s, l.pos, "="), LAMBDA e :
    Bind(parse_equality(s, e.pos), LAMBDA eq :
    Bind(Lit(s, eq.pos, "."), LAMBDA dot :
    Bind(parse_operand(s, dot.pos), LAMBDA r :
         Ok(r.pos, [left |-> l.val, equality |-> eq.val, right |-> r.val]))))))

\* order = c:column_name "." d:direction { Order{column: c, direction: d} }
parse_order(s, i) ==
    Bind(parse_column_name(s, i), LAMBDA c :
    Bind(Lit(s, c.pos, "."), LAMBDA dot :
    Bind(parse_direction(s, dot.pos), LAMBDA d :
         Ok(d.pos, [column |-> c.val, direction |-> d.val]))))

\* and_on = "&on=" c1:column_name "=" c2:column_name { (c1, c2) }
parse_and_on(s, i) ==
    Bind(Lit(s, i, "&on="), LAMBDA k :
    Bind(parse_column_name(s, k.pos), LAMBDA c1 :
    Bind(Lit(s, c1.pos, "="), LAMBDA e :
    Bind(parse_column_name(s, e.pos), LAMBDA c2 :
         Ok(c2.pos, <<c1.val, c2.val>>)))))

RECURSIVE parse_join(_, _)

\* The repeated element of a repetition, by rule name.
Element(r, s, i) ==
    CASE r = "operand" -> parse_operand(s, i)
      [] r = "order" -> parse_order(s, i)
      [] r = "equation" -> parse_equation(s, i)
      [] r = "and_on" -> parse_and_on(s, i)
      [] r = "join" -> parse_join(s, i)

RECURSIVE Repeat(_, _, _, _, _)

\* One round of a repetition: e is the match of the element after the
\* separator; a panic ends the parse, a failure ends the repetition at pos.
RepeatStep(r, s, pos, sep, acc, e) ==
    IF e.st = "panic" THEN e
    ELSE IF e.st = "fail" THEN Ok(pos, acc)
    ELSE Repeat(r, s, e.pos, sep, Append(acc, e.val))

\* e ** sep and e ++ sep (sep = "" for e+): the loop that collects the
\* matches of rule r from pos on; acc holds the values collected so far.  The
\* position moves only past a matched element, so a separator followed by no
\* element is given back.
Repeat(r, s, pos, sep, acc) ==
    IF Len(acc) > 0 /\ Lit(s, pos, sep).st # "ok"
    THEN Ok(pos, acc)
    ELSE RepeatStep(r, s, pos, sep, acc,
             Element(r, s, IF Len(acc) > 0 THEN pos + Len(sep) ELSE pos))

\* e ** sep : zero or more.
Many0(r, s, i, sep) == Repeat(r, s, i, sep, <<>>)

\* e ++ sep and e+ : one or more.
Many1(r, s, i, sep) ==
    Bind(Repeat(r, s, i, sep, <<>>), LAMBDA m :
         IF Len(m.val) = 0 THEN Failed ELSE m)

\* "kw" "=" e ++ "," { e } : the shape of order_by, group_by and from.
KeywordList(r, s, i, kw) ==
    Bind(Lit(s, i, kw), LAMBDA k :
    Bind(Lit(s, k.pos, "="), LAMBDA e :
         Many1(r, s, e.pos, ",")))

\* order_by = "order_by" "=" o:order ++ "," { o }
parse_order_by(s, i) == KeywordList("order", s, i, "order_by")

\* group_by = "group_by" "=" fields:operand ++ "," { fields }
parse_group_by(s, i) == KeywordList("operand", s, i, "group_by")

\* from = "from" "=" fr:operand ++ "," { fr }
parse_from(s, i) == KeywordList("operand", s, i, "from")

\* modifier = "left" / "right" / "full"
parse_modifier(s, i) ==
    Or(As(Lit(s, i, "left"), "LEFT"),
    Or(As(Lit(s, i, "right"), "RIGHT"),
       As(Lit(s, i, "full"), "FULL")))

\* join_type = "inner" / "outer" / "cross" / "natural"
parse_join_type(s, i) ==
    Or(As(Lit(s, i, "inner"), "INNER"),
    Or(As(Lit(s, i, "outer"), "OUTER"),
    Or(As(Lit(s, i, "cross"), "CROSS"),
       As(Lit(s, i, "natural"), "NATURAL"))))

\* modifier_join_type = m:modifier "_" jt:join_type { (Some(m), Some(jt)) }
\*                    / m:modifier { (Some(m), None) }
\*                    / jt:join_type { (None, Some(jt)) }
parse_modifier_join_type(s, i) ==
    Or(Bind(parse_modifier(s, i), LAMBDA m :
       Bind(Lit(s, m.pos, "_"), LAMBDA u :
       Bind(parse_join_type(s, u.pos), LAMBDA jt :
            Ok(jt.pos, <<Some(m.val), Some(jt.val)>>)))),
    Or(Bind(parse_modifier(s, i), LAMBDA m :
            Ok(m.pos, <<Some(m.val), None>>)),
       Bind(parse_join_type(s, i), LAMBDA jt :
            Ok(jt.pos, <<None, Some(jt.val)>>))))

\* The action block of join: the pairs are pushed, in order, onto columns1
\* and columns2, and an absent prefix is (None, None).
JoinPrefix(m_jt) == IF Len(m_jt) = 0 THEN <<None, None>> ELSE m_jt[1]

\* Both vectors pushed from the left column of each pair.
JoinValue_SameColumn(m_jt, t, on) ==
    [modifier |-> JoinPrefix(m_jt)[1],
     join_type |-> JoinPrefix(m_jt)[2],
     table |-> t,
     column1 |-> [k \in 1..Len(on) |-> on[k][1]],
     column2 |-> [k \in 1..Len(on) |-> on[k][1]]]

JoinValue(m_jt, t, on) ==
    [modifier |-> JoinPrefix(m_jt)[1],
     join_type |-> JoinPrefix(m_jt)[2],
     table |-> t,
     column1 |-> [k \in 1..Len(on) |-> on[k][1]],
     column2 |-> [k \in 1..Len(on) |-> on[k][2]]]

\* join = m_jt:modifier_join_type? "_"? "join" "=" t:operand on:and_on+ {...}
parse_join(s, i) ==
    Bind(Opt(parse_modifier_join_type(s, i), i), LAMBDA m_jt :
    Bind(Opt(Lit(s, m_jt.pos, "_"), m_jt.pos), LAMBDA u :
    Bind(Lit(s, u.pos, "join"), LAMBDA k :
    Bind(Lit(s, k.pos, "="), LAMBDA e :
    Bind(parse_operand(s, e.pos), LAMBDA t :
    Bind(Many1("and_on", s, t.pos, ""), LAMBDA on :
         Ok(on.pos, JoinValue(m_jt.val, t.val, on.val))))))))

\* and_join = "&" j:join ++ "&" { j }
parse_and_join(s, i) ==
    Bind(Lit(s, i, "&"), LAMBDA a : Many1("join", s, a.pos, "&"))

\* "kw" "=" n:number { n } : the shape of page, page_size, limit and offset.
KeywordNumber(s, i, kw) ==
    Bind(Lit(s, i, kw), LAMBDA k :
    Bind(Lit(s, k.pos, "="), LAMBDA e :
         parse_number(s, e.pos)))

\* page = "page" "=" p:number { p }
parse_page(s, i) == KeywordNumber(s, i, "page")

\* page_size = "page_size" "=" ps:number { ps }
parse_page_size(s, i) == KeywordNumber(s, i, "page_size")

\* limit = "limit" "=" l:number { l }
parse_limit(s, i) == KeywordNumber(s, i, "limit")

\* offset = "offset" "=" o:number { o }
parse_offset(s, i) == KeywordNumber(s, i, "offset")

\* and_page_size with an optional '&', like and_page.
parse_and_page_size_Loose(s, i) ==
    Bind(Opt(Lit(s, i, "&"), i), LAMBDA a : parse_page_size(s, a.pos))

\* and_page_size = "&" ps:page_size { ps }
parse_and_page_size(s, i) ==
    Bind(Lit(s, i, "&"), LAMBDA a : parse_page_size(s, a.pos))

\* and_page = "&"? p:page { p }
parse_and_page(s, i) ==
    Bind(Opt(Lit(s, i, "&"), i), LAMBDA a : parse_page(s, a.pos))

\* and_limit = "&"? l:limit { l }
parse_and_limit(s, i) ==
    Bind(Opt(Lit(s, i, "&"), i), LAMBDA a : parse_limit(s, a.pos))

\* and_offset = "&" o:offset { o }
parse_and_offset(s, i) ==
    Bind(Lit(s, i, "&"), LAMBDA a : parse_offset(s, a.pos))

PageValue(p, ps) == [tag |-> "Page", page |-> p, page_size |-> ps]
LimitValue(l, o) == [tag |-> "Limit", limit |-> l, offset |-> o]

\* range = p:and_page ps:and_page_size
\*         { Range::Page(Page{page: p, page_size: ps}) }
\*       / l:and_limit o:and_offset?
\*         { Range::Limit(Limit{limit: l, offset: o}) }
parse_range(s, i) ==
    Or(Bind(parse_and_page(s, i), LAMBDA p :
       Bind(parse_and_page_size(s, p.pos), LAMBDA ps :
            Ok(ps.pos, PageValue(p.val, ps.val)))),
       Bind(parse_and_limit(s, i), LAMBDA l :
       Bind(Opt(parse_and_offset(s, l.pos), l.pos), LAMBDA o :
            Ok(o.pos, LimitValue(l.val, o.val)))))

\* connector = "&" { Connector::AND } / "|" { Connector::OR }
parse_connector(s, i) ==
    Or(As(Lit(s, i, "&"), "AND"), As(Lit(s, i, "|"), "OR"))

\* The action block of filter's first alternative: the filter f parsed after
\* the connector becomes the only sub-filter, carrying the connector.
SubFilter(conn, f) ==
    [connector |-> Some(conn),
     condition |-> f.condition,
     sub_filters |-> f.sub_filters]

\* A flat sibling list instead of the nested chain.
FilterChain_Flat(c, conn, f) ==
    [connector |-> None, condition |-> c,
     sub_filters |-> <<[connector |-> Some(conn), condition |-> f.condition,
                        sub_filters |-> <<>>]>> \o f.sub_filters]

FilterChain(c, conn, f) ==
    [connector |-> None, condition |-> c, sub_filters |-> <<SubFilter(conn, f)>>]

\* The action block of filter's third alternative.
FilterLeaf(c) == [connector |-> None, condition |-> c, sub_filters |-> <<>>]

\* filter = c:condition conn:connector f:filter {...}
\*        / "(" f:filter ")" { f }
\*        / c:condition {...}
RECURSIVE parse_filter(_, _)
parse_filter(s, i) ==
    Or(Bind(parse_condition(s, i), LAMBDA c :
       Bind(parse_connector(s, c.pos), LAMBDA conn :
       Bind(parse_filter(s, conn.pos), LAMBDA f :
            Ok(f.pos, FilterChain(c.val, conn.val, f.val))))),
    Or(Bind(Lit(s, i, "("), LAMBDA op :
       Bind(parse_filter(s, op.pos), LAMBDA f :
       Bind(Lit(s, f.pos, ")"), LAMBDA cl :
            Ok(cl.pos, f.val)))),
       Bind(parse_condition(s, i), LAMBDA c :
            Ok(c.pos, FilterLeaf(c.val)))))

\* having = "having" "=" f:filter { vec![f] }
parse_having(s, i) ==
    Bind(Lit(s, i, "having"), LAMBDA k :
    Bind(Lit(s, k.pos, "="), LAMBDA e :
    Bind(parse_filter(s, e.pos), LAMBDA f :
         Ok(f.pos, <<f.val>>))))

\* and_order_by = "&"? o:order_by { o }
parse_and_order_by(s, i) ==
    Bind(Opt(Lit(s, i, "&"), i), LAMBDA a : parse_order_by(s, a.pos))

\* and_group_by = "&"? g:group_by { g }
parse_and_group_by(s, i) ==
    Bind(Opt(Lit(s, i, "&"), i), LAMBDA a : parse_group_by(s, a.pos))

\* and_having = "&"? h:having { h }
parse_and_having(s, i) ==
    Bind(Opt(Lit(s, i, "&"), i), LAMBDA a : parse_having(s, a.pos))

\* and_equations = "&"? e:equation ** "&" { e }
parse_and_equations(s, i) ==
    Bind(Opt(Lit(s, i, "&"), i), LAMBDA a : Many0("equation", s, a.pos, "&"))

\* and_filters = "&"? f:filter { vec![f] }
parse_and_filters(s, i) ==
    Bind(Opt(Lit(s, i, "&"), i), LAMBDA a :
    Bind(parse_filter(s, a.pos), LAMBDA f :
         Ok(f.pos, <<f.val>>)))

\* match x { Some(x) => x, None => vec![] }
OrEmpty(o) == IF Len(o) = 0 THEN <<>> ELSE o[1]

\* params = f:and_filters? e:and_equations? { Params{filters, equations} }
parse_params(s, i) ==
    Bind(Opt(parse_and_filters(s, i), i), LAMBDA f :
    Bind(Opt(parse_and_equations(s, f.pos), f.pos), LAMBDA e :
         Ok(e.pos, [filters |-> OrEmpty(f.val), equations |-> OrEmpty(e.val)])))

\* The action block of query.
QueryValue(fr, j, f, g, h, o, r, e) ==
    [from |-> OrEmpty(fr), join |-> OrEmpty(j), filters |-> OrEmpty(f),
     group_by |-> OrEmpty(g), having |-> OrEmpty(h), order_by |-> OrEmpty(o),
     range |-> r, equations |-> OrEmpty(e)]

\* query = fr:from? j:and_join? f:and_filters? g:and_group_by? h:and_having?
\*         o:and_order_by? r:range? e:and_equations? {...}
parse_query(s, i) ==
    Bind(Opt(parse_from(s, i), i), LAMBDA fr :
    Bind(Opt(parse_and_join(s, fr.pos), fr.pos), LAMBDA j :
    Bind(Opt(parse_and_filters(s, j.pos), j.pos), LAMBDA f :
    Bind(Opt(parse_and_group_by(s, f.pos), f.pos), LAMBDA g :
    Bind(Opt(parse_and_having(s, g.pos), g.pos), LAMBDA h :
    Bind(Opt(parse_and_order_by(s, h.pos), h.pos), LAMBDA o :
    Bind(Opt(parse_range(s, o.pos), o.pos), LAMBDA r :
    Bind(Opt(parse_and_equations(s, r.pos), r.pos), LAMBDA e :
         Ok(e.pos, QueryValue(fr.val, j.val, f.val, g.val, h.val, o.val,
                              r.val, e.val))))))))))

-----------------------------------------------------------------------------
(* The #[pub] entry points                                                 *)

\* What a generated entry point returns for the match m of its rule on the
\* input s: Ok(value) only when the match ends at the end of the input.
\* An entry point without the end-of-input check.
Public_Prefix(m, s) ==
    IF m.st = "panic" THEN [st |-> "panic"]
    ELSE IF m.st = "ok" THEN [st |-> "Ok", val |-> m.val]
    ELSE [st |-> "Err"]

Public(m, s) ==
    IF m.st = "panic" THEN [st |-> "panic"]
    ELSE IF m.st = "ok" /\ m.pos = Len(s) + 1 THEN [st |-> "Ok", val |-> m.val]
    ELSE [st |-> "Err"]

-----------------------------------------------------------------------------
(* The caller: it builds an input string piece by piece, then calls one    *)
(* entry point on it.                                                      *)

Init ==
    /\ toks = <<>>
    /\ input = ""
    /\ rule = ""
    /\ matched = Failed
    /\ result = [st |-> "none"]

number ==
    /\ rule = ""
    /\ rule' = "number"
    /\ matched' = parse_number(input, 1)
    /\ result' = Public(matched', input)
    /\ UNCHANGED <<toks, input>>

operand ==
    /\ rule = ""
    /\ rule' = "operand"
    /\ matched' = parse_operand(input, 1)
    /\ result' = Public(matched', input)
    /\ UNCHANGED <<toks, input>>

equality ==
    /\ rule = ""
    /\ rule' = "equality"
    /\ matched' = parse_equality(input, 1)
    /\ result' = Public(matched', input)
    /\ UNCHANGED <<toks, input>>

condition ==
    /\ rule = ""
    /\ rule' = "condition"
    /\ matched' = parse_condition(input, 1)
    /\ result' = Public(matched', input)
    /\ UNCHANGED <<toks, input>>

order ==
    /\ rule = ""
    /\ rule' = "order"
    /\ matched' = parse_order(input, 1)
    /\ result' = Public(matched', input)
    /\ UNCHANGED <<toks, input>>

join ==
    /\ rule = ""
    /\ rule' = "join"
    /\ matched' = parse_join(input, 1)
    /\ result' = Public(matched', input)
    /\ UNCHANGED <<toks, input>>

range ==
    /\ rule = ""
    /\ rule' = "range"
    /\ matched' = parse_range(input, 1)
    /\ result' = Public(matched', input)
    /\ UNCHANGED <<toks, input>>

filter ==
    /\ rule = ""
    /\ rule' = "filter"
    /\ matched' = parse_filter(input, 1)
    /\ result' = Public(matched', input)
    /\ UNCHANGED <<toks, input>>

params ==
    /\ rule = ""
    /\ rule' = "params"
    /\ matched' = parse_params(input, 1)
    /\ result' = Public(matched', input)
    /\ UNCHANGED <<toks, input>>

query ==
    /\ rule = ""
    /\ rule' = "query"
    /\ matched' = parse_query(input, 1)
    /\ result' = Public(matched', input)
    /\ UNCHANGED <<toks, input>>

page ==
    /\ rule = ""
    /\ rule' = "page"
    /\ matched' = parse_page(input, 1)
    /\ result' = Public(matched', input)
    /\ UNCHANGED <<toks, input>>

page_size ==
    /\ rule = ""
    /\ rule' = "page_size"
    /\ matched' = parse_page_size(input, 1)
    /\ result' = Public(matched', input)
    /\ UNCHANGED <<toks, input>>

limit ==
    /\ rule = ""
    /\ rule' = "limit"
    /\ matched' = parse_limit(input, 1)
    /\ result' = Public(matched', input)
    /\ UNCHANGED <<toks, input>>

offset ==
    /\ rule = ""
    /\ rule' = "offset"
    /\ matched' = parse_offset(input, 1)
    /\ result' = Public(matched', input)
    /\ UNCHANGED <<toks, input>>

\* The pieces of ts that belong to set, in order.
RECURSIVE Only(_, _)
Only(ts, set) ==
    IF Len(ts) = 0 THEN <<>>
    ELSE IF Head(ts) \in set THEN <<Head(ts)>> \o Only(Tail(ts), set)
    ELSE Only(Tail(ts), set)

\* The string made of the pieces ts, each preceded by sep except the first.
RECURSIVE Joined(_, _)
Joined(ts, sep) ==
    IF Len(ts) = 0 THEN ""
    ELSE IF Len(ts) = 1 THEN ts[1]
    ELSE ts[1] \o sep \o Joined(Tail(ts), sep)

Err == [st |-> "Err"]
Returned(v) == [st |-> "Ok", val |-> v]

-----------------------------------------------------------------------------
(* Filters: inputs made of conditions, connectors and parentheses          *)

MaxFilterToks == 5

FilterConds == {"a=eq.1", "min(b)=lte.c"}
Connectors == {"&", "|"}
Parens == {"(", ")"}
FilterVocab == FilterConds \cup Connectors \cup Parens

TypeFilter ==
    /\ rule = ""
    /\ Len(toks) < MaxFilterToks
    /\ \E t \in FilterVocab :
          /\ toks' = Append(toks, t)
          /\ input' = input \o t
    /\ UNCHANGED <<rule, matched, result>>

NextFilter ==
    TypeFilter \/ filter \/ condition \/ params \/ query \/ operand

SpecFilter == Init /\ [][NextFilter]_vars

\* The Condition each condition piece denotes.
ExpectedCondition(t) ==
    CASE t = "a=eq.1" ->
           [left |-> Column("a"), equality |-> "EQ", right |-> Number("1")]
      [] t = "min(b)=lte.c" ->
           [left |-> FunctionOp([function |-> "min", params |-> <<Column("b")>>]),
            equality |-> "LTE", right |-> Column("c")]

ExpectedConnector(t) == IF t = "&" THEN "AND" ELSE "OR"

\* The chain R_i of conditions cs[i..] linked by connectors ks[i-1..].
RECURSIVE RightNested(_, _, _)
RightNested(cs, ks, i) ==
    [connector |-> IF i = 1 THEN None ELSE Some(ExpectedConnector(ks[i - 1])),
     condition |-> ExpectedCondition(cs[i]),
     sub_filters |-> IF i = Len(cs) THEN <<>>
                     ELSE <<RightNested(cs, ks, i + 1)>>]

\* The input without its parentheses.
Unparenthesised == Joined(Only(toks, FilterConds \cup Connectors), "")

\* C1: every input the filter parser accepts, made of conditions c1..cn and
\* connectors k1..k(n-1) with or without parentheses, yields the right-nested
\* chain of c1..cn in input order: the root has no connector, each later node
\* carries the connector before its condition and is the only sub-filter of
\* its predecessor, and the result equals the parse of the input with the
\* parentheses removed.
C1_RightNestedChain ==
    (rule = "filter" /\ result.st = "Ok") =>
        /\ Len(Only(toks, FilterConds)) >= 1
        /\ Len(Only(toks, Connectors)) = Len(Only(toks, FilterConds)) - 1
        /\ result.val = RightNested(Only(toks, FilterConds),
                                    Only(toks, Connectors), 1)
        /\ result = Public(parse_filter(Unparenthesised, 1), Unparenthesised)

\* C1 witness: a chain of three conditions was parsed.
C1_Witness ==
    /\ rule = "filter"
    /\ result.st = "Ok"
    /\ Len(Only(toks, FilterConds)) = 3
    /\ Only(toks, Connectors) = <<"&", "|">>

-----------------------------------------------------------------------------
(* Queries: inputs made of whole clauses joined by '&'                     *)

\* The caller types at most MaxShuffled clauses in any order, then only
\* clauses that come later in the canonical order than the last one typed.
MaxShuffled == 2

Clauses ==
    {"from=p,q", "left_join=t&on=p.id=t.pid", "age=lt.13|ok=eq.true",
     "group_by=grade", "group_by=sum(age),grade", "having=min(age)=gt.13",
     "order_by=age.desc,h.asc", "limit=100&offset=25", "page=2&page_size=20",
     "x=123&y=456"}

\* The place of a clause in the order from, join, filters, group_by, having,
\* order_by, range, equations.
ClauseRank(c) ==
    CASE c = "from=p,q" -> 1
      [] c = "left_join=t&on=p.id=t.pid" -> 2
      [] c = "age=lt.13|ok=eq.true" -> 3
      [] c \in {"group_by=grade", "group_by=sum(age),grade"} -> 4
      [] c = "having=min(age)=gt.13" -> 5
      [] c = "order_by=age.desc,h.asc" -> 6
      [] c \in {"limit=100&offset=25", "page=2&page_size=20"} -> 7
      [] c = "x=123&y=456" -> 8

Sum(x) == FunctionOp([function |-> "sum", params |-> <<Column(x)>>])
Min(x) == FunctionOp([function |-> "min", params |-> <<Column(x)>>])

\* What each clause denotes: the value of its Query field.
ClauseValue(c) ==
    CASE c = "from=p,q" -> <<Column("p"), Column("q")>>
      [] c = "left_join=t&on=p.id=t.pid" ->
           <<[modifier |-> Some("LEFT"), join_type |-> None,
              table |-> Column("t"),
              column1 |-> <<"p.id">>, column2 |-> <<"t.pid">>]>>
      [] c = "age=lt.13|ok=eq.true" ->
           <<[connector |-> None,
              condition |-> [left |-> Column("age"), equality |-> "LT",
                             right |-> Number("13")],
              sub_filters |->
                <<[connector |-> Some("OR"),
                   condition |-> [left |-> Column("ok"), equality |-> "EQ",
                                  right |-> Boolean(TRUE)],
                   sub_filters |-> <<>>]>>]>>
      [] c = "group_by=grade" -> <<Column("grade")>>
      [] c = "group_by=sum(age),grade" -> <<Sum("age"), Column("grade")>>
      [] c = "having=min(age)=gt.13" ->
           <<[connector |-> None,
              condition |-> [left |-> Min("age"), equality |-> "GT",
                             right |-> Number("13")],
              sub_filters |-> <<>>]>>
      [] c = "order_by=age.desc,h.asc" ->
           <<[column |-> "age", direction |-> "DESC"],
             [column |-> "h", direction |-> "ASC"]>>
      [] c = "limit=100&offset=25" -> Some(LimitValue("100", Some("25")))
      [] c = "page=2&page_size=20" -> Some(PageValue("2", "20"))
      [] c = "x=123&y=456" ->
           <<[left |-> Column("x"), right |-> Number("123")],
             [left |-> Column("y"), right |-> Number("456")]>>

TypeClause ==
    /\ rule = ""
    /\ \E c \in Clauses :
          /\ \/ Len(toks) < MaxShuffled
             \/ /\ Len(toks) > 0
                /\ ClauseRank(c) > ClauseRank(toks[Len(toks)])
          /\ toks' = Append(toks, c)
          /\ input' = IF Len(toks) = 0 THEN c ELSE input \o "&" \o c
    /\ UNCHANGED <<rule, matched, result>>

NextQuery == TypeClause \/ query \/ params

SpecQuery == Init /\ [][NextQuery]_vars

\* The clauses of ts stand in the canonical order, each kind at most once.
CanonicalOrder(ts) ==
    \A k \in 1..(Len(ts) - 1) : ClauseRank(ts[k]) < ClauseRank(ts[k + 1])

\* Two clauses of ts stand in an order other than the canonical one.
OutOfOrder(ts) ==
    \E k \in 1..Len(ts) : \E l \in (k + 1)..Len(ts) :
        ClauseRank(ts[k]) > ClauseRank(ts[l])

\* The value of the field of rank r when the clauses ts are parsed each into
\* its own field: empty (None for range) when ts has no clause of that rank.
Field(ts, r) ==
    IF \E k \in 1..Len(ts) : ClauseRank(ts[k]) = r
    THEN ClauseValue(ts[CHOOSE k \in 1..Len(ts) : ClauseRank(ts[k]) = r])
    ELSE <<>>

ExpectedQuery(ts) ==
    [from |-> Field(ts, 1), join |-> Field(ts, 2), filters |-> Field(ts, 3),
     group_by |-> Field(ts, 4), having |-> Field(ts, 5),
     order_by |-> Field(ts, 6), range |-> Field(ts, 7),
     equations |-> Field(ts, 8)]

\* C2: for an input whose clauses stand in the canonical order (each clause
\* optional), query succeeds and returns each clause's elements, in input
\* order, in the Query field of the same name, and an empty field (range:
\* None) for each absent clause.
C2_CanonicalOrderParses ==
    (rule = "query" /\ CanonicalOrder(toks)) =>
        result = Returned(ExpectedQuery(toks))

\* C3: for an input in which two clauses stand in an order other than the
\* canonical one, query returns a parse failure.
C3_OutOfOrderFails ==
    (rule = "query" /\ OutOfOrder(toks)) => result = Err

-----------------------------------------------------------------------------
(* Joins: inputs made of a join head and '&on=' pairs                      *)

MaxJoinToks == 4

JoinHeads == {"join=t", "left_inner_join=b.t"}
GoodPairs == {"&on=a=b", "&on=p.id=t.pid"}
BadPairs == {"&on=a=", "&a=b"}
JoinVocab == JoinHeads \cup GoodPairs \cup BadPairs

TypeJoin ==
    /\ rule = ""
    /\ Len(toks) < MaxJoinToks
    /\ \E t \in JoinVocab :
          /\ toks' = Append(toks, t)
          /\ input' = input \o t
    /\ UNCHANGED <<rule, matched, result>>

NextJoin == TypeJoin \/ join

SpecJoin == Init /\ [][NextJoin]_vars

\* The left and right column names a well-formed pair spells.
PairLeft(t) == IF t = "&on=a=b" THEN "a" ELSE "p.id"
PairRight(t) == IF t = "&on=a=b" THEN "b" ELSE "t.pid"

\* The Join a head followed by the pairs ps denotes.
ExpectedJoin(h, ps) ==
    [modifier |-> IF h = "join=t" THEN None ELSE Some("LEFT"),
     join_type |-> IF h = "join=t" THEN None ELSE Some("INNER"),
     table |-> IF h = "join=t" THEN Column("t") ELSE Column("b.t"),
     column1 |-> [k \in 1..Len(ps) |-> PairLeft(ps[k])],
     column2 |-> [k \in 1..Len(ps) |-> PairRight(ps[k])]]

\* The input is a join head followed by k >= 1 well-formed pairs.
HeadAndPairs ==
    /\ Len(toks) >= 2
    /\ toks[1] \in JoinHeads
    /\ \A k \in 2..Len(toks) : toks[k] \in GoodPairs

\* C5: join fails when no '&on=col1=col2' pair follows the table, and when
\* it succeeds on a table followed by k >= 1 pairs, column1 and column2 both
\* have length k and hold the left and the right column name of the i-th
\* pair at index i.
C5_JoinParallelColumns ==
    rule = "join" =>
        /\ (Len(toks) = 1 /\ toks[1] \in JoinHeads) => result = Err
        /\ result.st = "Ok" =>
              /\ HeadAndPairs
              /\ Len(result.val.column1) = Len(toks) - 1
              /\ Len(result.val.column2) = Len(toks) - 1
              /\ \A k \in 1..(Len(toks) - 1) :
                    /\ result.val.column1[k] = PairLeft(toks[k + 1])
                    /\ result.val.column2[k] = PairRight(toks[k + 1])
        /\ HeadAndPairs =>
              result = Returned(ExpectedJoin(toks[1], Tail(toks)))

\* C5 witness: a join with three pairs, not all the same, was parsed.
C5_Witness ==
    /\ rule = "join"
    /\ result.st = "Ok"
    /\ Len(result.val.column1) = 3
    /\ result.val.column1[1] # result.val.column1[3]

-----------------------------------------------------------------------------
(* Ranges: inputs made of page, page_size, limit and offset assignments    *)

MaxRangeToks == 4

TooBig == "9223372036854775808"

SmallAssignments == {"page=2", "page_size=20", "limit=100", "offset=25"}
BigAssignments ==
    {"page=" \o TooBig, "page_size=" \o TooBig, "limit=" \o TooBig,
     "offset=" \o TooBig}
RangeVocab == SmallAssignments \cup BigAssignments \cup {"&"}

TypeRange ==
    /\ rule = ""
    /\ Len(toks) < MaxRangeToks
    /\ \E t \in RangeVocab :
          /\ toks' = Append(toks, t)
          /\ input' = input \o t
    /\ UNCHANGED <<rule, matched, result>>

NextRange ==
    TypeRange \/ range \/ page \/ page_size \/ limit \/ offset

SpecRange == Init /\ [][NextRange]_vars

\* x, with or without one '&' before it.
Led(x) == {x, "&" \o x}

PageForms == Led("page=2&page_size=20")
LimitForms == Led("limit=100")
LimitOffsetForms == Led("limit=100&offset=25")
RejectedForms ==
    Led("page=2") \cup Led("page=2&offset=25") \cup Led("limit=100&page_size=20")

\* What range returns for the inputs in forms, and only for them.
RangeReturns(forms, v) ==
    /\ input \in forms => result = Returned(v)
    /\ result = Returned(v) => input \in forms

HasTooBig == \E k \in 1..Len(toks) : toks[k] \in BigAssignments

\* C10: when the digits of a page, page_size, limit or offset do not convert
\* to an i64, the entry point returns a parse failure: it does not panic and
\* returns no number.
C10_ConversionFailureIsErr ==
    (rule # "" /\ HasTooBig) => result = Err

-----------------------------------------------------------------------------
(* Operands and orders: inputs made of identifiers and dots                *)

MaxOperandToks == 5

Directions == {"asc", "desc"}
Idents == {"t", "age", "asc", "desc", "description", "ascii"}
OperandVocab == Idents \cup {"."}

TypeOperand ==
    /\ rule = ""
    /\ Len(toks) < MaxOperandToks
    /\ \E t \in OperandVocab :
          /\ toks' = Append(toks, t)
          /\ input' = input \o t
    /\ UNCHANGED <<rule, matched, result>>

NextOperand == TypeOperand \/ operand \/ order

SpecOperand == Init /\ [][NextOperand]_vars

\* The identifier spelled by the pieces a..b of the input, none of them a dot.
IsName(a, b) == a <= b /\ \A k \in a..b : toks[k] # "."
NamePart(a, b) == Joined(SubSeq(toks, a, b), "")

\* The input ends in '.asc' or '.desc'.
EndsInDirection ==
    /\ Len(toks) >= 3
    /\ toks[Len(toks)] \in Directions
    /\ toks[Len(toks) - 1] = "."

DirectionOf(d) == IF d = "asc" THEN "ASC" ELSE "DESC"

\* The input is 'c.d': an identifier, a dot, a direction keyword.
ColumnDirection == EndsInDirection /\ IsName(1, Len(toks) - 2)

\* The input is 't.c' with the dot at piece k, c not a direction keyword.
QualifiedAt(k, last) ==
    /\ IsName(1, k - 1)
    /\ toks[k] = "."
    /\ IsName(k + 1, last)
    /\ NamePart(k + 1, last) \notin Directions

\* C7: for every identifier c and direction keyword d, operand never returns
\* Column("c.d") for the input 'c.d', order returns Order{column: c,
\* direction: d} for it, and order returns Order{column: "t.c", direction: d}
\* for a qualified column followed by a direction, 't.c.d'.
C7_DirectionSuffix ==
    /\ (rule = "operand" /\ ColumnDirection) =>
          result # Returned(Column(input))
    /\ (rule = "order" /\ ColumnDirection) =>
          result = Returned([column |-> NamePart(1, Len(toks) - 2),
                             direction |-> DirectionOf(toks[Len(toks)])])
    /\ (rule = "order" /\ EndsInDirection) =>
          \A k \in 2..(Len(toks) - 3) :
              QualifiedAt(k, Len(toks) - 2) =>
                  result = Returned([column |-> NamePart(1, Len(toks) - 2),
                                     direction |-> DirectionOf(toks[Len(toks)])])

\* C8: operand accepts 't.c' as Column("t.c") for all identifiers t and c
\* where c is not asc or desc, also when c merely begins with asc or desc.
C8_QualifiedColumn ==
    rule = "operand" =>
        \A k \in 2..(Len(toks) - 1) :
            QualifiedAt(k, Len(toks)) => result = Returned(Column(input))

-----------------------------------------------------------------------------
(* Equalities: inputs made of equality tokens and fragments of them        *)

MaxEqualityToks == 3

Tokens ==
    {"eq", "neq", "lt", "lte", "gt", "gte", "in", "not_in", "is", "is_not",
     "like", "ilike"}
Fragments == {"e", "n", "i", "_not", "not_"}
Sides == {"age=", ".13"}
EqualityVocab == Tokens \cup Fragments \cup Sides

TypeEquality ==
    /\ rule = ""
    /\ Len(toks) < MaxEqualityToks
    /\ \E t \in EqualityVocab :
          /\ toks' = Append(toks, t)
          /\ input' = input \o t
    /\ UNCHANGED <<rule, matched, result>>

NextEquality == TypeEquality \/ equality \/ condition

SpecEquality == Init /\ [][NextEquality]_vars

\* The operator each token stands for.
OperatorOf(tok) ==
    CASE tok = "eq" -> "EQ"
      [] tok = "neq" -> "NEQ"
      [] tok = "lt" -> "LT"
      [] tok = "lte" -> "LTE"
      [] tok = "gt" -> "GT"
      [] tok = "gte" -> "GTE"
      [] tok = "in" -> "IN"
      [] tok = "not_in" -> "NOT_IN"
      [] tok = "is" -> "IS"
      [] tok = "is_not" -> "IS_NOT"
      [] tok = "like" -> "LIKE"
      [] tok = "ilike" -> "ILIKE"

\* C9: equality maps each of its twelve tokens to its own operator and
\* rejects every other string, and condition on 'l=tok.r' returns the
\* operator of the whole token tok, never that of a prefix of it.
C9_LongestMatch ==
    /\ rule = "equality" =>
          /\ input \in Tokens => result = Returned(OperatorOf(input))
          /\ input \notin Tokens => result = Err
    /\ rule = "condition" =>
          \A tok \in Tokens :
              input = "age=" \o tok \o ".13" =>
                  result = Returned([left |-> Column("age"),
                                     equality |-> OperatorOf(tok),
                                     right |-> Number("13")])

\* C9 witness: a condition with an extended token was parsed as the
\* extended operator.
C9_Witness ==
    /\ rule = "condition"
    /\ input = "age=is_not.13"
    /\ result.st = "Ok"
    /\ result.val.equality = "IS_NOT"

-----------------------------------------------------------------------------
(* Params: inputs made of '&'-separated conditions and equations           *)

MaxSegments == 4

EquationSegs == {"x=123", "y=z"}
Segments == FilterConds \cup EquationSegs

TypeSegment ==
    /\ rule = ""
    /\ Len(toks) < MaxSegments
    /\ \E t \in Segments :
          /\ toks' = Append(toks, t)
          /\ input' = IF Len(toks) = 0 THEN t ELSE input \o "&" \o t
    /\ UNCHANGED <<rule, matched, result>>

NextParams == TypeSegment \/ params \/ query

SpecParams == Init /\ [][NextParams]_vars

\* The conditions of a filter chain, root first.
RECURSIVE ChainConditions(_)
ChainConditions(f) ==
    <<f.condition>> \o
        (IF Len(f.sub_filters) = 0 THEN <<>>
         ELSE ChainConditions(f.sub_filters[1]))

\* The conditions of all the filters of a Params or Query value.
RECURSIVE AllConditions(_)
AllConditions(fs) ==
    IF Len(fs) = 0 THEN <<>>
    ELSE ChainConditions(Head(fs)) \o AllConditions(Tail(fs))

\* What the right side of a condition segment is when read as one column.
TokenColumns == {Column("eq.1"), Column("lte.c")}

\* C11: in the result of params and of query every segment 'l=tok.r' with
\* tok an equality token is a Condition of filters, wherever it stands in
\* the input, and no Equation has the right operand Column("tok.r").
C11_ConditionNeverEquation ==
    (rule \in {"params", "query"} /\ result.st = "Ok") =>
        /\ \A k \in 1..Len(result.val.equations) :
              result.val.equations[k].right \notin TokenColumns
        /\ AllConditions(result.val.filters) =
              [k \in 1..Len(Only(toks, FilterConds)) |->
                  ExpectedCondition(Only(toks, FilterConds)[k])]

-----------------------------------------------------------------------------
(* Literal values: the pom parsers of src/src/parser.rs                    *)
(*                                                                         *)
(* A pom parser is, like a rule above, a function of the input and a start *)
(* position.  p | q is ordered choice, p.opt() and p.repeat(n..) are       *)
(* greedy, and Parser::parse runs the parser from the start of the input   *)
(* and returns its output; it does not ask that the input be exhausted.    *)

Delimiters == {"=", "&", "(", ")"}
NonZeroDigit == Digit \ {"0"}

Null == [tag |-> "Null"]
String(v) == [tag |-> "String", string |-> v]
NumberF64(n) == [tag |-> "Number", f64 |-> n]
Bool(b) == [tag |-> "Bool", bool |-> b]

\* one_of(set): one character of the set.
OneOf(s, i, set) ==
    IF i <= Len(s) /\ SubSeq(s, i, i) \in set
    THEN Ok(i + 1, SubSeq(s, i, i))
    ELSE Failed

\* none_of(set): one character outside the set.
NoneOf(s, i, set) ==
    IF i <= Len(s) /\ SubSeq(s, i, i) \notin set
    THEN Ok(i + 1, SubSeq(s, i, i))
    ELSE Failed

\* none_of(set).repeat(0..) collected into a String: the items matched from
\* i on, after acc.
RECURSIVE NoneOfRepeat(_, _, _, _)
NoneOfRepeat(s, i, set, acc) ==
    IF NoneOf(s, i, set).st = "ok"
    THEN NoneOfRepeat(s, i + 1, set, acc \o NoneOf(s, i, set).val)
    ELSE Ok(i, acc)

\* p.repeat(1..): the match r of p.repeat(0..) from i, refused when empty.
AtLeastOne(r, i) == IF r.pos = i THEN Failed ELSE r

\* let char_string = none_of("=&()").repeat(1..).map(String::from_iter);
char_string(s, i) == AtLeastOne(NoneOfRepeat(s, i, Delimiters, ""), i)

\* char_string.repeat(0..) followed by .map(|strings| strings.concat()):
\* the strings matched from i on, concatenated after acc.
RECURSIVE pom_string_repeat(_, _, _)
pom_string_repeat(s, i, acc) ==
    IF char_string(s, i).st = "ok"
    THEN pom_string_repeat(s, char_string(s, i).pos,
                           acc \o char_string(s, i).val)
    ELSE Ok(i, acc)

\* fn string
pom_string(s, i) == pom_string_repeat(s, i, "")

\* let integer = one_of("123456789") - one_of("0123456789").repeat(0..)
\*             | sym('0');
pom_integer(s, i) ==
    Or(Bind(OneOf(s, i, NonZeroDigit), LAMBDA d :
            Ok(RunEnd(s, d.pos, Digit), "")),
       Lit(s, i, "0"))

\* let frac = sym('.') + one_of("0123456789").repeat(1..);
pom_frac(s, i) ==
    Bind(Lit(s, i, "."), LAMBDA d : Run1(s, d.pos, RunEnd(s, d.pos, Digit)))

\* let exp = one_of("eE") + one_of("+-").opt()
\*         + one_of("0123456789").repeat(1..);
pom_exp(s, i) ==
    Bind(OneOf(s, i, {"e", "E"}), LAMBDA e :
    Bind(Opt(OneOf(s, e.pos, {"+", "-"}), e.pos), LAMBDA sign :
         Run1(s, sign.pos, RunEnd(s, sign.pos, Digit))))

\* fn number: sym('-').opt() + integer + frac.opt() + exp.opt(), collected.
\* f64::from_str accepts every string of this shape; the value is kept as
\* the text it was converted from.
pom_number(s, i) ==
    Bind(Opt(Lit(s, i, "-"), i), LAMBDA minus :
    Bind(pom_integer(s, minus.pos), LAMBDA n :
    Bind(Opt(pom_frac(s, n.pos), n.pos), LAMBDA f :
    Bind(Opt(pom_exp(s, f.pos), f.pos), LAMBDA e :
         Ok(e.pos, SubSeq(s, i, e.pos - 1))))))

\* fn bool
pom_bool(s, i) ==
    Or(As(Lit(s, i, "true"), TRUE), As(Lit(s, i, "false"), FALSE))

\* fn value
pom_value(s, i) ==
    Or(As(Lit(s, i, "null"), Null),
    Or(Bind(pom_bool(s, i), LAMBDA b : Ok(b.pos, Bool(b.val))),
    Or(Bind(pom_number(s, i), LAMBDA n : Ok(n.pos, NumberF64(n.val))),
       Bind(pom_string(s, i), LAMBDA v : Ok(v.pos, String(v.val))))))

\* Parser::parse: the output of the parser run from the start of the input.
Parse(m) == IF m.st = "ok" THEN Returned(m.val) ELSE Err

value ==
    /\ rule = ""
    /\ rule' = "value"
    /\ matched' = pom_value(input, 1)
    /\ result' = Parse(matched')
    /\ UNCHANGED <<toks, input>>

string ==
    /\ rule = ""
    /\ rule' = "string"
    /\ matched' = pom_string(input, 1)
    /\ result' = Parse(matched')
    /\ UNCHANGED <<toks, input>>

MaxValueToks == 3

Words == {"null", "true", "false", "able", "a b", "\"x'"}
Numerals == {"12", "0", "-", ".5", "e+3"}
ValueVocab == Words \cup Numerals \cup Delimiters

TypeValue ==
    /\ rule = ""
    /\ Len(toks) < MaxValueToks
    /\ \E t \in ValueVocab :
          /\ toks' = Append(toks, t)
          /\ input' = input \o t
    /\ UNCHANGED <<rule, matched, result>>

NextValue == TypeValue \/ value \/ string

SpecValue == Init /\ [][NextValue]_vars

\* The input holds none of the delimiters.
DelimiterFree == \A k \in 1..Len(toks) : toks[k] \notin Delimiters

\* The whole input is a number of the number grammar.
IsNumber ==
    /\ pom_number(input, 1).st = "ok"
    /\ pom_number(input, 1).pos = Len(input) + 1

\* A non-empty bare token that is not null, true, false or a number.
BareToken ==
    /\ input # ""
    /\ DelimiterFree
    /\ input \notin {"null", "true", "false"}
    /\ ~IsNumber

\* C12: for every non-empty token free of delimiters that is not exactly
\* null, true or false and is not a number, value returns Value::String
\* holding the whole token: never Null, Bool or Number, and never a failure.
C12_BareTokenIsString ==
    (rule = "value" /\ BareToken) => result = Returned(String(input))

\* The pieces of ts before its first delimiter.
RECURSIVE BeforeDelimiter(_)
BeforeDelimiter(ts) ==
    IF Len(ts) = 0 \/ Head(ts) \in Delimiters THEN <<>>
    ELSE <<Head(ts)>> \o BeforeDelimiter(Tail(ts))

\* C13: string returns an input without delimiters unchanged, returns on any
\* input its longest delimiter-free prefix, and fails, instead of returning
\* an empty string, when the input is empty or starts with a delimiter.
C13_RawString ==
    rule = "string" =>
        /\ (DelimiterFree /\ input # "") => result = Returned(input)
        /\ result.st = "Ok" =>
              result = Returned(Joined(BeforeDelimiter(toks), ""))
        /\ (input = "" \/ toks[1] \in Delimiters) => result = Err

=============================================================================
